---- MODULE Spec2Model ----
(***************************************************************************)
(* A model of the Crowdin Context Harvester: the AI-context merge engine   *)
(* (appendAiContext / removeAIContext), the chunk planner                  *)
(* (getStringsChunks and the files loop of chunkAndExtract) and the        *)
(* worker pool of the per-string strategy (runConcurrentWorkers).          *)
(***************************************************************************)
EXTENDS Integers, Sequences, FiniteSets, TLC

VARIABLES
    \* ---- merge engine (src/utils.js)
    context,          \* the string's existing context, as loaded
    aiContext,        \* the fragment list handed to appendAiContext
    merged,           \* the value the last operation returned
    previous,         \* the value the last operation was applied to
    applied,          \* the operations applied so far, in order
    \* ---- chunk planner (getStringsChunks, chunkAndExtract)
    crowdinStrings,   \* input list of strings
    stringsChunkLimit,
    stringsToProceed,
    stringsChunks,
    localFiles,       \* input list of local files
    filesChunkLimit,
    filesContent,     \* insertion-ordered map key -> text
    filesChunks,
    tooLarge,         \* keys reported "too large to be processed"
    queued,           \* keys whose text is due to be emitted in a chunk
    cpc,              \* position inside chunkAndExtract
    \* ---- worker pool (runConcurrentWorkers, extractContexts)
    items,            \* the strings handed to runConcurrentWorkers
    concurrencyOption,\* options.concurrency as given on the command line
    cursor,
    workers,          \* per worker: its position and the index it holds
    started,          \* number of worker closures Array.from has called
    handed,           \* per item: how often it was handed to the worker fn
    results,          \* extractContexts' results array
    wpc,              \* position of extractContexts around the pool
    \* ---- the harvest and upload commands (harvest, appendContext, output)
    options,          \* the command-line options
    hpc,              \* position inside harvest / upload
    exitStatus,       \* status the process exited with; -1 while it runs
    remoteCalls,      \* calls made to Crowdin and to the batch provider, in order
    strings,          \* the loaded strings: id, context, aiContext
    agentOutcome,     \* per string id: how the agent's run for it ends
    reqString,        \* request loop: index of the strings chunk
    reqFile,          \* request loop: index of the files chunk
    contexts,         \* request loop: contexts collected so far
    stringsContext,   \* what the extraction returned to harvest
    rows,             \* rows written to the terminal table or the CSV file
    patches,          \* batch requests sent to stringBatchOperations
    \* ---- the reset command
    containers,       \* the files (or branches) of the project with their strings
    container         \* reset loop: number of containers it has been through

mergeVars == <<context, aiContext, merged, previous, applied>>
chunkVars == <<crowdinStrings, stringsChunkLimit, stringsToProceed, stringsChunks,
               localFiles, filesChunkLimit, filesContent, filesChunks, tooLarge,
               queued, cpc>>
poolVars == <<items, concurrencyOption, cursor, workers, started, handed, results, wpc>>
harvestVars == <<options, hpc, exitStatus, remoteCalls, strings, agentOutcome,
                 reqString, reqFile, contexts, stringsContext, rows, patches>>
resetVars == <<containers, container>>
vars == <<mergeVars, chunkVars, poolVars, harvestVars, resetVars>>

----------------------------------------------------------------------------
(* Bounds of the model *)

MaxPieces == 3
MaxFrags == 2
MaxStrings == 3
MaxStringTokens == 2
MaxStringsLimit == 4
MaxChunks == 4
MaxFiles == 2
MaxPathLen == 2
MaxBody == 3
MaxFilesLimit == 8
MaxItems == 3
MaxConcurrency == 3
MaxHarvestStrings == 2
MaxRows == 2
MaxContainers == 2
MaxContainerStrings == 2

----------------------------------------------------------------------------
(* Text.  A text is a sequence of symbols.  "n" is a newline, "S" the text  *)
(* of AI_CONTEXT_SECTION_START, "E" the text of AI_CONTEXT_SECTION_END      *)
(* (neither contains a newline, so each is one symbol), "a" any other       *)
(* character.                                                               *)

AI_CONTEXT_SECTION_START == <<"S">>
AI_CONTEXT_SECTION_END == <<"E">>

aiContextSection == <<"n", "n">> \o AI_CONTEXT_SECTION_START \o <<"n">>
endAiContextSection == <<"n">> \o AI_CONTEXT_SECTION_END

Min(set) == CHOOSE x \in set : \A y \in set : x <= y

\* String.prototype.indexOf: zero-based index of the first occurrence, or -1
IndexOf(s, pat) ==
    LET hits == {i \in 0..(Len(s) - Len(pat)) : SubSeq(s, i + 1, i + Len(pat)) = pat}
    IN  IF hits = {} THEN -1 ELSE Min(hits)

\* String.prototype.substring(from, to) and substring(from)
Substring(s, from, to) == SubSeq(s, from + 1, to)
SubstringFrom(s, from) == SubSeq(s, from + 1, Len(s))

\* Array.prototype.join('\n')
RECURSIVE JoinLines(_)
JoinLines(list) ==
    IF list = <<>> THEN <<>>
    ELSE IF Len(list) = 1 THEN list[1]
    ELSE list[1] \o <<"n">> \o JoinLines(Tail(list))

\* a context that is null or undefined, and the TypeError a call of a method
\* on it throws; neither is a text
Undefined == <<"undefined">>
TypeError == <<"TypeError">>

\* `context.indexOf(...)` is called without a guard
appendAiContext(ctx, frags) ==
    LET aiContextIndex == IndexOf(ctx, aiContextSection)
        endAiContextIndex == IndexOf(ctx, endAiContextSection)
    IN  IF ctx = Undefined THEN TypeError
        ELSE IF aiContextIndex # -1 /\ endAiContextIndex # -1
        THEN Substring(ctx, 0, aiContextIndex)
                \o aiContextSection
                \o JoinLines(frags)
                \o endAiContextSection
                \o SubstringFrom(ctx, endAiContextIndex + Len(endAiContextSection))
        ELSE ctx \o aiContextSection \o JoinLines(frags) \o endAiContextSection

removeAIContext(ctx) ==
    IF ctx = <<>> \/ ctx = Undefined THEN ctx
    ELSE LET aiContextIndex == IndexOf(ctx, aiContextSection)
             endAiContextIndex == IndexOf(ctx, endAiContextSection)
         IN  IF aiContextIndex # -1 /\ endAiContextIndex # -1
             THEN Substring(ctx, 0, aiContextIndex)
                    \o SubstringFrom(ctx, endAiContextIndex + Len(endAiContextSection))
             ELSE ctx

\* Inputs of the merge engine: contexts built from a few pieces, fragment
\* lists built from a few fragment texts.
Pieces == {<<"a">>, <<"n">>, <<"S">>, <<"E">>, aiContextSection, endAiContextSection}

RECURSIVE Concats(_)
Concats(k) ==
    IF k = 0 THEN {<<>>}
    ELSE LET shorter == Concats(k - 1)
         IN  shorter \cup {c \o p : c \in shorter, p \in Pieces}

Contexts == Concats(MaxPieces)

FragmentTexts == {<<"a">>, <<"E">>, <<"a", "n", "E", "a">>, <<"a", "n", "n", "S", "n", "a">>}

RECURSIVE FragmentLists(_)
FragmentLists(k) ==
    IF k = 0 THEN {<<>>}
    ELSE LET shorter == FragmentLists(k - 1)
         IN  shorter \cup {Append(l, f) : l \in shorter, f \in FragmentTexts}

\* a context that holds two AI sections, one after the other
TwoSections ==
    <<"a">> \o aiContextSection \o <<"a">> \o endAiContextSection
            \o aiContextSection \o <<"a">> \o endAiContextSection

InitMerge ==
    /\ context \in Contexts \cup {Undefined, TwoSections}
    /\ aiContext \in FragmentLists(MaxFrags)
    /\ merged = context
    /\ previous = context
    /\ applied = <<>>

IdleMerge ==
    /\ context = <<>>
    /\ aiContext = <<>>
    /\ merged = <<>>
    /\ previous = <<>>
    /\ applied = <<>>

\* uploadAiStringsToCrowdin: value = appendAiContext(string.context, string.aiContext)
AppendStep ==
    /\ applied \in {<<>>, <<"append">>}
    /\ merged # TypeError
    /\ merged' = appendAiContext(merged, aiContext)
    /\ previous' = merged
    /\ applied' = Append(applied, "append")
    /\ UNCHANGED <<context, aiContext, chunkVars, poolVars, harvestVars>>
    /\ UNCHANGED resetVars

\* uploadWithoutAiStringsToCrowdin: value = removeAIContext(string.context)
RemoveStep ==
    /\ applied \in {<<>>, <<"append">>, <<"remove">>}
    /\ merged # TypeError
    /\ merged' = removeAIContext(merged)
    /\ previous' = merged
    /\ applied' = Append(applied, "remove")
    /\ UNCHANGED <<context, aiContext, chunkVars, poolVars, harvestVars>>
    /\ UNCHANGED resetVars

----------------------------------------------------------------------------
(* Chunk planner, strings side: getStringsChunks.                           *)
(* A string is [id, tok]: its Crowdin id and the number of tokens its own   *)
(* entry adds to the serialized chunk.  A chunk is a JS object keyed by     *)
(* string id; it is kept as the sequence of its values in Object.keys       *)
(* order, which for integer keys is ascending numeric order.                *)

RECURSIVE SumTok(_)
SumTok(chunk) == IF chunk = <<>> THEN 0 ELSE Head(chunk).tok + SumTok(Tail(chunk))

\* tokens of JSON.stringify({}, null, 2), i.e. of "{}"
EmptyJsonTokens == 1

\* tokenizer.encode(stringifyStrings({ strings: chunk })).length
SerializedTokens(chunk) == EmptyJsonTokens + SumTok(chunk)

\* chunk[string.id] = string
ObjectSet(chunk, string) ==
    LET before == SelectSeq(chunk, LAMBDA s : s.id < string.id)
        after == SelectSeq(chunk, LAMBDA s : s.id > string.id)
    IN  before \o <<string>> \o after

\* delete chunk[id]
ObjectDelete(chunk, id) == SelectSeq(chunk, LAMBDA s : s.id # id)

\* Object.keys(chunk).map(id => +id)
ChunkIds(chunk) == {chunk[i].id : i \in 1..Len(chunk)}

\* a pass that leaves the string that did not fit in the chunk
RECURSIVE FillChunkKeepsOverflow(_, _, _)
FillChunkKeepsOverflow(chunk, rest, chunkLimit) ==
    IF rest = <<>> THEN chunk
    ELSE LET added == ObjectSet(chunk, Head(rest))
         IN  IF SerializedTokens(added) > chunkLimit
             THEN added
             ELSE FillChunkKeepsOverflow(added, Tail(rest), chunkLimit)

\* the for-of loop of one pass: add strings until one does not fit
RECURSIVE FillChunk(_, _, _)
FillChunk(chunk, rest, chunkLimit) ==
    IF rest = <<>> THEN chunk
    ELSE LET added == ObjectSet(chunk, Head(rest))
         IN  IF SerializedTokens(added) > chunkLimit
             THEN ObjectDelete(added, Head(rest).id)
             ELSE FillChunk(added, Tail(rest), chunkLimit)

\* a filter that also drops the string the pass stopped at
RemainingDropsNext(toProceed, chunk) ==
    LET rest == SelectSeq(toProceed, LAMBDA s : s.id \notin ChunkIds(chunk))
    IN  IF rest = <<>> THEN rest ELSE Tail(rest)

\* stringsToProceed.filter(string => !chunkIds.includes(string.id))
Remaining(toProceed, chunk) ==
    SelectSeq(toProceed, LAMBDA s : s.id \notin ChunkIds(chunk))

\* stringifyStrings: the members in Object.keys order, each reduced to its
\* id, text, identifier and context; the text and the identifier of a string
\* are written by its id
stringifyStrings(chunk) ==
    [m \in 1..Len(chunk) |->
        [id |-> chunk[m].id,
         text |-> <<"t", ToString(chunk[m].id)>>,
         identifier |-> <<"k", ToString(chunk[m].id)>>,
         context |-> <<>>]]

StringRecords == [id : 1..MaxStrings, tok : 1..MaxStringTokens]

RECURSIVE StringLists(_)
StringLists(k) ==
    IF k = 0 THEN {<<>>}
    ELSE LET shorter == StringLists(k - 1)
         IN  shorter \cup {Append(l, s) : l \in shorter,
                              s \in {r \in StringRecords : TRUE}}

DistinctIds(list) == \A i, j \in 1..Len(list) : i # j => list[i].id # list[j].id

StringInputs == {l \in StringLists(MaxStrings) : DistinctIds(l)}

----------------------------------------------------------------------------
(* Chunk planner, files side: the files loop of chunkAndExtract.            *)
(* A file text is a sequence of one-token symbols: "C" the words            *)
(* "Content of ", "p" a character of the path, "P" and "c" the words        *)
(* "Part of " and " content:", "-" and "i" the suffix of a fragment key,    *)
(* "<" the opening fence, ">" the closing fence, "x" a body character.      *)

Repeat(sym, k) == [i \in 1..k |-> sym]

\* the text of a key of filesContent: the path, then "-i" per fragment level
KeyText(pathLen, key) == Repeat("p", pathLen) \o Repeat("-", Len(key) - 1)

\* `Content of ${localFile}:`
ContentLabel(pathLen, key) == <<"C">> \o KeyText(pathLen, key)

\* `Part of ${fileKey} content:\n```\n`
PartHeader(pathLen, key) == <<"P">> \o KeyText(pathLen, key) \o <<"c", "<">>

\* `Content of ${localFile}:\n```\n${content}\n```\n\n`
FileText(file) ==
    ContentLabel(file.pathLen, <<file.id>>) \o <<"<">> \o file.body \o <<">">>

\* tokenizer.encode(text).length
Tokens(text) == Len(text)

\* stringifyFiles({ files }) : files.join('')
RECURSIVE stringifyFiles(_)
stringifyFiles(files) ==
    IF files = <<>> THEN <<>> ELSE Head(files).text \o stringifyFiles(Tail(files))

\* text.replace(`Content of ${fileKey}:`, '')
RemoveContentLabel(text, label) ==
    LET at == IndexOf(text, label)
    IN  IF at = -1 THEN text
        ELSE Substring(text, 0, at) \o SubstringFrom(text, at + Len(label))

maxNumbersOfSplit == 10

Ceil2(n) == (n + 1) \div 2

\* curr.match(new RegExp('(.|[\r\n]){1,' + Math.ceil(curr.length / 2) + '}', 'g'))
HalvePart(curr) ==
    IF Len(curr) <= 1 THEN <<curr>>
    ELSE <<SubSeq(curr, 1, Ceil2(Len(curr))), SubSeq(curr, Ceil2(Len(curr)) + 1, Len(curr))>>

\* largeFileParts.reduce((acc, curr) => { acc.push(...chunks); return acc }, []):
\* the pieces of every part, in the order of the parts (evaluated by halves
\* of the list, which keeps the evaluation shallow for a thousand parts)
RECURSIVE HalveAll(_)
HalveAll(parts) ==
    IF parts = <<>> THEN <<>>
    ELSE IF Len(parts) = 1 THEN HalvePart(parts[1])
    ELSE LET mid == Len(parts) \div 2
         IN  HalveAll(SubSeq(parts, 1, mid)) \o HalveAll(SubSeq(parts, mid + 1, Len(parts)))

\* the while loop that bisects a large file
RECURSIVE SplitLargeFile(_, _, _, _)
SplitLargeFile(parts, header, splitsCount, limit) ==
    IF splitsCount < maxNumbersOfSplit /\ Tokens(header \o parts[1]) > limit
    THEN SplitLargeFile(HalveAll(parts), header, splitsCount + 1, limit)
    ELSE [parts |-> parts, splitsCount |-> splitsCount]

EntryKeys(entries) == {entries[i].key : i \in 1..Len(entries)}

DeleteKeys(entries, keys) == SelectSeq(entries, LAMBDA e : e.key \notin keys)

\* filesContent[`${fileKey}-${i}`] = largeFileParts[i], for every i
Fragments(entry, parts) ==
    [i \in 1..Len(parts) |->
        [key |-> Append(entry.key, i - 1), pathLen |-> entry.pathLen, text |-> parts[i]]]

Lookup(entries, key) == entries[CHOOSE i \in 1..Len(entries) : entries[i].key = key]

\* the body of `if (tokenizer.encode(filesContent[fileKey]).length > filesChunkLimit)`:
\* bisect, queue the fragments or report the file, delete the file's own entry
HandleLargeFile(st, entry, limit) ==
    LET header == PartHeader(entry.pathLen, entry.key)
        first == RemoveContentLabel(entry.text, ContentLabel(entry.pathLen, entry.key))
        split == SplitLargeFile(<<first>>, header, 0, limit)
        kept == split.splitsCount < maxNumbersOfSplit
        frags == IF kept THEN Fragments(entry, split.parts) ELSE <<>>
    IN  [st EXCEPT !.fc = DeleteKeys(st.fc \o frags, {entry.key}),
                   !.large = IF kept THEN st.large ELSE st.large \cup {entry.key},
                   !.queued = (st.queued \ {entry.key}) \cup EntryKeys(frags)]

\* the for-of loop over Object.keys(filesContent), taken when the pass starts
RECURSIVE FilesForLoop(_, _, _)
FilesForLoop(keys, st, limit) ==
    IF keys = <<>> THEN st
    ELSE LET entry == Lookup(st.fc, Head(keys))
         IN  IF Tokens(entry.text) > limit
             THEN FilesForLoop(Tail(keys), HandleLargeFile(st, entry, limit), limit)
             ELSE LET added == Append(st.chunk, entry)
                  IN  IF Tokens(stringifyFiles(added)) > limit
                      THEN [st EXCEPT !.chunks = Append(st.chunks, st.chunk),
                                      !.fc = DeleteKeys(st.fc, EntryKeys(st.chunk)),
                                      !.broke = TRUE]
                      ELSE FilesForLoop(Tail(keys), [st EXCEPT !.chunk = added], limit)

\* `if (Object.keys(chunk).length === Object.keys(filesContent).length)`
ClosePass(st) ==
    IF Len(st.chunk) = Len(st.fc)
    THEN [st EXCEPT !.chunks = Append(st.chunks, st.chunk), !.fc = <<>>]
    ELSE st

\* one iteration of `while (Object.keys(filesContent).length)`
FilesPass(fc, chunks, large, expected, limit) ==
    ClosePass(FilesForLoop([i \in 1..Len(fc) |-> fc[i].key],
                           [fc |-> fc, chunk |-> <<>>, chunks |-> chunks,
                            large |-> large, queued |-> expected, broke |-> FALSE],
                           limit))

\* a readable file has a path and a body; of an unreadable one only the path matters
FileKinds ==
    [pathLen : 1..MaxPathLen, body : {Repeat("x", b) : b \in 0..MaxBody}, readable : {TRUE}]
        \cup {[pathLen |-> 1, body |-> <<>>, readable |-> FALSE]}

RECURSIVE FileLists(_)
FileLists(k) ==
    IF k = 0 THEN {<<>>}
    ELSE LET shorter == FileLists(k - 1)
         IN  shorter \cup {Append(l, [id |-> Len(l) + 1, pathLen |-> f.pathLen,
                                       body |-> f.body, readable |-> f.readable]) :
                              l \in {m \in shorter : Len(m) = k - 1}, f \in FileKinds}

FileInputs == FileLists(MaxFiles)

\* an unreadable file: chunkAndExtract goes on to plan the strings, with no file text
NoReadableFile == <<[id |-> 1, pathLen |-> 1, body |-> <<>>, readable |-> FALSE]>>

\* two strings of which each fills a strings chunk on its own
TwoStrings == <<[id |-> 1, tok |-> MaxStringTokens], [id |-> 2, tok |-> MaxStringTokens]>>

InitChunks ==
    /\ \/ /\ crowdinStrings \in StringInputs
          /\ stringsChunkLimit \in 1..MaxStringsLimit
          /\ localFiles \in {<<>>, NoReadableFile}
          /\ filesChunkLimit = MaxFilesLimit
       \/ /\ crowdinStrings \in {<<>>, TwoStrings}
          /\ stringsChunkLimit = SerializedTokens(<<TwoStrings[1]>>)
          /\ localFiles \in FileInputs
          /\ filesChunkLimit \in 1..MaxFilesLimit
    /\ stringsToProceed = <<>>
    /\ stringsChunks = <<>>
    /\ filesContent = <<>>
    /\ filesChunks = <<>>
    /\ tooLarge = {}
    /\ queued = {}
    /\ cpc = "start"

IdleChunks ==
    /\ crowdinStrings = <<>>
    /\ localFiles = <<>>
    /\ stringsChunkLimit = 1
    /\ filesChunkLimit = 1
    /\ stringsToProceed = <<>>
    /\ stringsChunks = <<>>
    /\ filesContent = <<>>
    /\ filesChunks = <<>>
    /\ tooLarge = {}
    /\ queued = {}
    /\ cpc = "idle"

\* `if (!localFiles.length) return { contexts: [] }`
NoFilesFound ==
    /\ cpc = "start"
    /\ localFiles = <<>>
    /\ cpc' = "done"
    /\ UNCHANGED <<mergeVars, poolVars, harvestVars>>
    /\ UNCHANGED <<crowdinStrings, stringsChunkLimit, stringsToProceed, stringsChunks,
                   localFiles, filesChunkLimit, filesContent, filesChunks, tooLarge, queued>>
    /\ UNCHANGED resetVars

\* the read loop, and the first statement of getStringsChunks
CollectFiles ==
    /\ cpc = "start"
    /\ localFiles # <<>>
    /\ LET readable == SelectSeq(localFiles, LAMBDA f : f.readable)
       IN  /\ filesContent' = [i \in 1..Len(readable) |->
                                 [key |-> <<readable[i].id>>,
                                  pathLen |-> readable[i].pathLen,
                                  text |-> FileText(readable[i])]]
           /\ queued' = {<<readable[i].id>> : i \in 1..Len(readable)}
    /\ stringsToProceed' = crowdinStrings
    /\ cpc' = "getStringsChunks"
    /\ UNCHANGED <<mergeVars, poolVars, harvestVars>>
    /\ UNCHANGED <<crowdinStrings, stringsChunkLimit, stringsChunks, localFiles,
                   filesChunkLimit, filesChunks, tooLarge>>
    /\ UNCHANGED resetVars

\* one iteration of `while (stringsToProceed.length)`
StringsChunkPass ==
    /\ cpc = "getStringsChunks"
    /\ stringsToProceed # <<>>
    /\ Len(stringsChunks) < MaxChunks
    /\ LET chunk == FillChunk(<<>>, stringsToProceed, stringsChunkLimit)
       IN  /\ stringsChunks' = Append(stringsChunks, chunk)
           /\ stringsToProceed' = Remaining(stringsToProceed, chunk)
    /\ UNCHANGED <<mergeVars, poolVars, harvestVars>>
    /\ UNCHANGED <<crowdinStrings, stringsChunkLimit, localFiles, filesChunkLimit,
                   filesContent, filesChunks, tooLarge, queued, cpc>>
    /\ UNCHANGED resetVars

\* `return stringsChunks`
StringsChunksReturn ==
    /\ cpc = "getStringsChunks"
    /\ stringsToProceed = <<>>
    /\ cpc' = "filesLoop"
    /\ UNCHANGED <<mergeVars, poolVars, harvestVars>>
    /\ UNCHANGED <<crowdinStrings, stringsChunkLimit, stringsToProceed, stringsChunks,
                   localFiles, filesChunkLimit, filesContent, filesChunks, tooLarge, queued>>
    /\ UNCHANGED resetVars

FilesChunkPass ==
    /\ cpc = "filesLoop"
    /\ filesContent # <<>>
    /\ LET st == FilesPass(filesContent, filesChunks, tooLarge, queued, filesChunkLimit)
       IN  /\ filesContent' = st.fc
           /\ filesChunks' = st.chunks
           /\ tooLarge' = st.large
           /\ queued' = st.queued
    /\ UNCHANGED <<mergeVars, poolVars, harvestVars>>
    /\ UNCHANGED <<crowdinStrings, stringsChunkLimit, stringsToProceed, stringsChunks,
                   localFiles, filesChunkLimit, cpc>>
    /\ UNCHANGED resetVars

\* the files loop ends: the chunks are planned
FilesLoopEnd ==
    /\ cpc = "filesLoop"
    /\ filesContent = <<>>
    /\ cpc' = "planned"
    /\ UNCHANGED <<mergeVars, poolVars, harvestVars>>
    /\ UNCHANGED <<crowdinStrings, stringsChunkLimit, stringsToProceed, stringsChunks,
                   localFiles, filesChunkLimit, filesContent, filesChunks, tooLarge, queued>>
    /\ UNCHANGED resetVars

----------------------------------------------------------------------------
(* Worker pool: extractContexts and runConcurrentWorkers.                   *)
(* A JS number is [nan, n]: NaN, or the integer n.                          *)

\* the values options.concurrency can take: text that is no number, or an integer
ConcurrencyOptions ==
    {[numeric |-> FALSE, n |-> 0]} \cup {[numeric |-> TRUE, n |-> i] : i \in (-1)..MaxConcurrency}

\* Number(options.concurrency)
Number(option) == [nan |-> ~option.numeric, n |-> IF option.numeric THEN option.n ELSE 0]

\* Math.max(1, concurrency): NaN when an argument is NaN
MathMax1(x) == IF x.nan THEN x ELSE [nan |-> FALSE, n |-> IF x.n > 1 THEN x.n ELSE 1]

\* the number of elements Array.from({ length }) makes: ToLength(NaN) is 0
ArrayFromLength(length) == IF length.nan \/ length.n < 0 THEN 0 ELSE length.n

\* a pool with one worker per item
NumWorkersPerItem(option) == Len(items)

\* Array.from({ length: Math.max(1, concurrency) }, ...).length
NumWorkers(option) == ArrayFromLength(MathMax1(Number(option)))

InitPool ==
    /\ \E n \in 0..MaxItems : items = [i \in 1..n |-> i]
    /\ concurrencyOption \in ConcurrencyOptions
    /\ cursor = 0
    /\ workers = <<>>
    /\ started = 0
    /\ handed = [i \in 1..Len(items) |-> 0]
    /\ results = <<>>
    /\ wpc = "start"

IdlePool ==
    /\ items = <<>>
    /\ concurrencyOption = [numeric |-> TRUE, n |-> 1]
    /\ cursor = 0
    /\ workers = <<>>
    /\ started = 0
    /\ handed = <<>>
    /\ results = <<>>
    /\ wpc = "idle"

\* the worker closure from its loop head to its next await (or its return):
\* `if (cursor >= items.length) return; const currentIndex = cursor++;
\*  await worker(items[currentIndex])`
ClaimNext(w) ==
    IF cursor >= Len(items)
    THEN /\ workers' = [workers EXCEPT ![w] = [pc |-> "returned", index |-> 0]]
         /\ UNCHANGED <<cursor, handed>>
    ELSE /\ cursor' = cursor + 1
         /\ workers' = [workers EXCEPT ![w] = [pc |-> "await", index |-> cursor + 1]]
         /\ handed' = [handed EXCEPT ![cursor + 1] = @ + 1]

\* extractContexts reads the option and calls runConcurrentWorkers, which sets
\* the cursor and sizes the array of workers
RunConcurrentWorkers ==
    /\ wpc = "start"
    /\ cursor' = 0
    /\ workers' = [w \in 1..NumWorkers(concurrencyOption) |-> [pc |-> "pending", index |-> 0]]
    /\ wpc' = "pool"
    /\ UNCHANGED <<items, concurrencyOption, started, handed, results>>
    /\ UNCHANGED <<mergeVars, chunkVars, harvestVars>>
    /\ UNCHANGED resetVars

\* Array.from calls the closure of the next worker, which runs to its first await
StartWorker ==
    /\ wpc = "pool"
    /\ started < Len(workers)
    /\ started' = started + 1
    /\ ClaimNext(started + 1)
    /\ UNCHANGED <<items, concurrencyOption, results, wpc>>
    /\ UNCHANGED <<mergeVars, chunkVars, harvestVars>>
    /\ UNCHANGED resetVars

\* processSingleString settles for the item worker w holds (the agent returned a
\* context, returned none, or threw and was caught); the worker function pushes
\* the result and the closure goes round its loop
TaskSettles(w, hasContext) ==
    /\ wpc = "pool"
    /\ started = Len(workers)
    /\ workers[w].pc = "await"
    /\ results' = IF hasContext THEN Append(results, items[workers[w].index]) ELSE results
    /\ ClaimNext(w)
    /\ UNCHANGED <<items, concurrencyOption, started, wpc>>
    /\ UNCHANGED <<mergeVars, chunkVars, harvestVars>>
    /\ UNCHANGED resetVars

\* a join that resolves as soon as one worker has returned
PoolJoinsAtFirstReturn ==
    /\ wpc = "pool"
    /\ started = Len(workers)
    /\ \E w \in 1..Len(workers) : workers[w].pc = "returned"
    /\ wpc' = "returned"
    /\ UNCHANGED <<items, concurrencyOption, cursor, workers, started, handed, results>>
    /\ UNCHANGED <<mergeVars, chunkVars, harvestVars>>
    /\ UNCHANGED resetVars

\* `await Promise.all(workers)` resolves
PoolJoins ==
    /\ wpc = "pool"
    /\ started = Len(workers)
    /\ \A w \in 1..Len(workers) : workers[w].pc = "returned"
    /\ wpc' = "returned"
    /\ UNCHANGED <<items, concurrencyOption, cursor, workers, started, handed, results>>
    /\ UNCHANGED <<mergeVars, chunkVars, harvestVars>>
    /\ UNCHANGED resetVars

----------------------------------------------------------------------------
(* The harvest command: option checks, loading the strings, extraction,     *)
(* appendContext and the three outputs.                                     *)
(* A loaded string is [id, context, aiContext].  Its context is a text or   *)
(* Undefined.  Its aiContext is an array of fragment texts, or absent, or   *)
(* (in a record read from a CSV file) a string.                             *)

\* string.aiContext is undefined
NoAiContext == <<Undefined>>

\* string.aiContext is a string: the cell of the aiContext column of a CSV record
CsvCell(text) == <<<<"csv">>, text>>

IsArray(a) == a # NoAiContext /\ (a = <<>> \/ a[1] # <<"csv">>)

\* ToBoolean: undefined and '' are falsy, an array (also an empty one) is truthy
Truthy(a) ==
    IF a = NoAiContext THEN FALSE
    ELSE IF IsArray(a) THEN TRUE
    ELSE a[2] # <<>>

\* String.prototype.includes
Includes(s, pat) == IndexOf(s, pat) # -1

\* the values of the options harvest and getCrowdinStrings branch on; croql and
\* crowdinFiles: whether the option was given a non-empty value
Outputs == {"terminal", "csv", "crowdin", "other"}
AiProviders == {"openai", "unknown"}
Screens == {"none", "keys", "texts"}
AllOptions ==
    [append : BOOLEAN, output : Outputs, csvFileExists : BOOLEAN, ai : AiProviders,
     credential : BOOLEAN, croql : BOOLEAN, crowdinFiles : BOOLEAN, screen : Screens]

\* validateAiProviderFields: "exit1" when the provider is no key of the mapping
\* or a field the provider requires is missing
validateAiProviderFields(opts) ==
    IF opts.ai = "unknown" THEN "exit1"
    ELSE IF ~opts.credential THEN "exit1"
    ELSE "ok"

\* the checks harvest makes before its first await, in their order;
\* `process.exit()` without an argument ends the process with status 0
checkOptions(opts) ==
    IF opts.append /\ opts.output # "csv" THEN "exit1"
    ELSE IF opts.append /\ ~opts.csvFileExists THEN "exit1"
    ELSE IF opts.output \notin {"terminal", "csv", "crowdin"} THEN "exit0"
    ELSE validateAiProviderFields(opts)

\* a call to Crowdin or to the provider, as recorded in remoteCalls
RemoteCall(name, threw, response) == [call |-> name, threw |-> threw, response |-> response]

CalledAny(names) == \E i \in 1..Len(remoteCalls) : remoteCalls[i].call \in names

\* harvest from its entry to `await getCrowdin(options)`
CheckOptions ==
    /\ hpc = "start"
    /\ LET outcome == checkOptions(options)
       IN  /\ hpc' = IF outcome = "ok" THEN "load" ELSE "exited"
           /\ exitStatus' = CASE outcome = "exit1" -> 1
                              [] outcome = "exit0" -> 0
                              [] OTHER -> exitStatus
    /\ UNCHANGED <<options, remoteCalls, strings, agentOutcome, reqString, reqFile,
                   contexts, stringsContext, rows, patches>>
    /\ UNCHANGED <<mergeVars, chunkVars, poolVars>>
    /\ UNCHANGED resetVars

\* the contexts Crowdin holds for n strings: empty texts, or one string
\* without a context
StringContexts(n) ==
    {[i \in 1..n |-> <<>>]} \cup {[i \in 1..n |-> IF i = k THEN Undefined ELSE <<>>] : k \in 1..n}

\* what listProjectStrings returns: strings that have no aiContext yet
ListedStrings ==
    UNION {{[i \in 1..n |-> [id |-> i, context |-> c[i], aiContext |-> NoAiContext]] :
                c \in StringContexts(n)} : n \in 0..MaxHarvestStrings}

\* what the CSV parser returns (`columns: true`): every field a string; the
\* file has an aiContext column with empty and non-empty cells, or none
CsvRecords ==
    UNION {{[i \in 1..n |-> [id |-> i, context |-> <<>>, aiContext |-> cells[i]]] :
                cells \in [1..n -> {CsvCell(<<>>), CsvCell(<<"a">>)}] \cup {[i \in 1..n |-> NoAiContext]}} :
           n \in 0..MaxHarvestStrings}

LoadableStrings(opts) == IF opts.append THEN CsvRecords ELSE ListedStrings

\* the calls getCrowdinStrings makes on a project with files: none in append
\* mode; getProject (after whose failure the process exits); the files are
\* listed unless options.croql is set, whatever options.crowdinFiles is; one
\* listing of strings, filtered by croql or by file id
getCrowdinStringsCalls(opts, projectFound) ==
    IF opts.append THEN <<>>
    ELSE IF ~projectFound THEN <<RemoteCall("getProject", TRUE, <<>>)>>
    ELSE <<RemoteCall("getProject", FALSE, <<>>)>>
            \o (IF opts.croql THEN <<>> ELSE <<RemoteCall("listProjectFiles", FALSE, <<>>)>>)
            \o <<RemoteCall("listProjectStrings", FALSE,
                            IF opts.croql THEN <<"croql">> ELSE <<"fileId">>)>>

\* how the run of the agent for one string ends: with a return_context tool
\* message that has content, with one whose trimmed content is empty, without
\* a return_context message, with an exception, at the recursion limit
AgentOutcomes == {"context", "blank", "noTool", "throws", "limit"}

\* the context a provider with fixed answers returns for the string with this id
AgentContext(id) == Repeat("a", id)

\* agent.invoke throws at the recursion limit (GraphRecursionError)
invokeAgent(outcome, id) ==
    CASE outcome = "context" -> [threw |-> FALSE, context |-> AgentContext(id)]
      [] outcome \in {"blank", "noTool"} -> [threw |-> FALSE, context |-> Undefined]
      [] OTHER -> [threw |-> TRUE, context |-> Undefined]

\* a processSingleString that reports the fixed context whatever the agent did
processSingleStringKeepsContext(outcome, id) == [id |-> id, context |-> AgentContext(id)]

\* the catch of processSingleString turns an exception into context: null
processSingleString(outcome, id) ==
    LET result == invokeAgent(outcome, id)
    IN  [id |-> id, context |-> IF result.threw THEN Undefined ELSE result.context]

\* `if (context)` in the worker function, for the string worker w holds
WorkerHasContext(w) ==
    /\ workers[w].index # 0
    /\ LET id == items[workers[w].index]
       IN  processSingleString(agentOutcome[id], id).context \notin {Undefined, <<>>}

\* harvest (agentic): getCrowdin, getCrowdinStrings and the call of extractContexts
GetCrowdinStrings ==
    /\ hpc = "load"
    /\ \E projectFound \in BOOLEAN, loaded \in LoadableStrings(options) :
         \E outcome \in [1..Len(loaded) -> AgentOutcomes] :
            /\ remoteCalls' = remoteCalls \o getCrowdinStringsCalls(options, projectFound)
            /\ IF ~options.append /\ ~projectFound
               THEN /\ hpc' = "exited"
                    /\ exitStatus' = 1
                    /\ UNCHANGED <<strings, agentOutcome, items, handed, wpc>>
               ELSE /\ strings' = loaded
                    /\ agentOutcome' = outcome
                    /\ items' = [i \in 1..Len(loaded) |-> loaded[i].id]
                    /\ handed' = [i \in 1..Len(loaded) |-> 0]
                    /\ wpc' = "start"
                    /\ hpc' = "extract"
                    /\ UNCHANGED exitStatus
    /\ UNCHANGED <<options, reqString, reqFile, contexts, stringsContext, rows, patches>>
    /\ UNCHANGED <<concurrencyOption, cursor, workers, started, results>>
    /\ UNCHANGED <<mergeVars, chunkVars>>
    /\ UNCHANGED resetVars

\* createAgentAndPrompt throws (getChatModel): the catch around extractContexts
\* in harvest logs it and stringsContext stays {}
ExtractContextsThrows ==
    /\ hpc = "extract"
    /\ wpc = "start"
    /\ wpc' = "failed"
    /\ stringsContext' = <<>>
    /\ hpc' = "append"
    /\ UNCHANGED <<options, exitStatus, remoteCalls, strings, agentOutcome, reqString,
                   reqFile, contexts, rows, patches>>
    /\ UNCHANGED <<items, concurrencyOption, cursor, workers, started, handed, results>>
    /\ UNCHANGED <<mergeVars, chunkVars>>
    /\ UNCHANGED resetVars

\* `return { contexts: results }`: each result is { id, context }
ExtractContextsReturns ==
    /\ hpc = "extract"
    /\ wpc = "returned"
    /\ wpc' = "done"
    /\ stringsContext' = [k \in 1..Len(results) |->
                            [id |-> results[k], context |-> AgentContext(results[k])]]
    /\ hpc' = "append"
    /\ UNCHANGED <<options, exitStatus, remoteCalls, strings, agentOutcome, reqString,
                   reqFile, contexts, rows, patches>>
    /\ UNCHANGED <<items, concurrencyOption, cursor, workers, started, handed, results>>
    /\ UNCHANGED <<mergeVars, chunkVars>>
    /\ UNCHANGED resetVars

\* strings.find(s => s.id === id): the index of the first match, 0 for none
Find(strs, id) ==
    LET hits == {i \in 1..Len(strs) : strs[i].id = id}
    IN  IF hits = {} THEN 0 ELSE Min(hits)

\* an appendContext that leaves its loop at a result whose id it does not know
RECURSIVE appendContextStopsAtUnknown(_, _)
appendContextStopsAtUnknown(strs, ctxs) ==
    IF ctxs = <<>> THEN strs
    ELSE LET ctx == Head(ctxs)
             i == Find(strs, ctx.id)
         IN  IF i = 0 THEN strs
             ELSE IF ctx.context \in {Undefined, <<>>}
             THEN appendContextStopsAtUnknown(strs, Tail(ctxs))
             ELSE IF Truthy(strs[i].aiContext) /\ ~IsArray(strs[i].aiContext)
             THEN strs
             ELSE appendContextStopsAtUnknown(
                      [strs EXCEPT ![i].aiContext =
                          Append(IF Truthy(@) THEN @ ELSE <<>>, ctx.context)],
                      Tail(ctxs))

\* appendContext: the strings after its loop over stringsContext.contexts.
\* `string.aiContext.push` of an aiContext that is a non-empty string throws;
\* the loop is left, and what it changed before stays changed.
RECURSIVE appendContext(_, _)
appendContext(strs, ctxs) ==
    IF ctxs = <<>> THEN strs
    ELSE LET ctx == Head(ctxs)
             i == Find(strs, ctx.id)
         IN  IF i # 0 /\ ctx.context \notin {Undefined, <<>>}
             THEN IF Truthy(strs[i].aiContext) /\ ~IsArray(strs[i].aiContext)
                  THEN strs
                  ELSE appendContext(
                          [strs EXCEPT ![i].aiContext =
                              Append(IF Truthy(@) THEN @ ELSE <<>>, ctx.context)],
                          Tail(ctxs))
             ELSE appendContext(strs, Tail(ctxs))

\* harvest: `await appendContext(strings, stringsContext)` inside its try
AppendContext ==
    /\ hpc = "append"
    /\ strings' = appendContext(strings, stringsContext)
    /\ hpc' = "output"
    /\ UNCHANGED <<options, exitStatus, remoteCalls, agentOutcome, reqString, reqFile,
                   contexts, stringsContext, rows, patches>>
    /\ UNCHANGED <<mergeVars, chunkVars, poolVars>>
    /\ UNCHANGED resetVars

\* strings.filter(string => string.aiContext)
stringsWithAiContext(strs) ==
    LET hasAiContext(string) == Truthy(string.aiContext)
    IN  SelectSeq(strs, hasAiContext)

\* `string.aiContext.join('\n')` of a string that is not an array throws
JoinThrows(strs) == \E i \in 1..Len(strs) : ~IsArray(strs[i].aiContext)

\* the rows dryRunPrint puts into the table, below its header row
dryRunPrint(strs) ==
    LET kept == stringsWithAiContext(strs)
    IN  [i \in 1..Len(kept) |->
            [id |-> kept[i].id, context |-> <<>>, aiContext |-> JoinLines(kept[i].aiContext)]]

\* the rows writeCsv writes; none when no string has an aiContext
writeCsv(strs) ==
    LET kept == stringsWithAiContext(strs)
    IN  [i \in 1..Len(kept) |->
            [id |-> kept[i].id, context |-> kept[i].context,
             aiContext |-> JoinLines(kept[i].aiContext)]]

\* strings.filter(string => string?.aiContext?.length > 0 || uploadAll)
stringsToUpload(strs, uploadAll) ==
    LET hasFragments(string) ==
            \/ uploadAll
            \/ /\ string.aiContext # NoAiContext
               /\ IF IsArray(string.aiContext) THEN Len(string.aiContext) > 0
                  ELSE Len(string.aiContext[2]) > 0
    IN  SelectSeq(strs, hasFragments)

\* the value of the operation for one string; appendAiContext of an aiContext
\* that is no array throws at aiContext.join
patchValue(string, uploadAll) ==
    IF uploadAll THEN string.context
    ELSE IF ~IsArray(string.aiContext) THEN TypeError
    ELSE appendAiContext(string.context, string.aiContext)

\* contextUpdateBatchRequest
contextUpdateBatchRequest(strs, uploadAll) ==
    LET kept == stringsToUpload(strs, uploadAll)
    IN  [i \in 1..Len(kept) |->
            [op |-> "replace", path |-> kept[i].id, value |-> patchValue(kept[i], uploadAll)]]

\* uploadAiStringsToCrowdin: the batch requests sent after this call; an
\* exception while the request is built leaves before stringBatchOperations
uploadAiStringsToCrowdin(sent, strs, uploadAll) ==
    LET request == contextUpdateBatchRequest(strs, uploadAll)
    IN  IF \E i \in 1..Len(request) : request[i].value = TypeError
        THEN sent
        ELSE Append(sent, request)

uploadThrows(strs, uploadAll) ==
    LET request == contextUpdateBatchRequest(strs, uploadAll)
    IN  \E i \in 1..Len(request) : request[i].value = TypeError

\* a harvest that also uploads what it writes to the CSV file
outputIsNotTerminal(opts) == opts.output # "terminal"

\* `options.output === 'crowdin'`: the only branch that calls uploadAiStringsToCrowdin
outputIsCrowdin(opts) == opts.output = "crowdin"

\* harvest: the output branch.  An exception of dryRunPrint, writeCsv or
\* uploadAiStringsToCrowdin lands in the catch of harvest; the command ends.
Output ==
    /\ hpc = "output"
    /\ rows' = IF options.output \in {"terminal", "csv"} /\ ~JoinThrows(stringsWithAiContext(strings))
               THEN (IF options.output = "terminal" THEN dryRunPrint(strings) ELSE writeCsv(strings))
               ELSE rows
    /\ patches' = IF outputIsCrowdin(options)
                  THEN uploadAiStringsToCrowdin(patches, strings, FALSE)
                  ELSE patches
    /\ remoteCalls' = IF outputIsCrowdin(options) /\ ~uploadThrows(strings, FALSE)
                      THEN Append(remoteCalls, RemoteCall("stringBatchOperations", FALSE, <<>>))
                      ELSE remoteCalls
    /\ hpc' = "done"
    /\ exitStatus' = 0
    /\ UNCHANGED <<options, strings, agentOutcome, reqString, reqFile, contexts, stringsContext>>
    /\ UNCHANGED <<mergeVars, chunkVars, poolVars>>
    /\ UNCHANGED resetVars

----------------------------------------------------------------------------
(* Specifications *)

\* no command is running
IdleHarvest ==
    /\ options = [output |-> "csv"]
    /\ hpc = "idle"
    /\ exitStatus = -1
    /\ remoteCalls = <<>>
    /\ strings = <<>>
    /\ agentOutcome = <<>>
    /\ reqString = 0
    /\ reqFile = 0
    /\ contexts = <<>>
    /\ stringsContext = <<>>
    /\ rows = <<>>
    /\ patches = <<>>

\* no reset is running
IdleReset ==
    /\ containers = <<>>
    /\ container = 0

NextMerge == AppendStep \/ RemoveStep

MergeInit == InitMerge /\ IdleChunks /\ IdlePool /\ IdleHarvest /\ IdleReset

SpecMerge == MergeInit /\ [][NextMerge]_vars

NextChunks ==
    \/ NoFilesFound
    \/ CollectFiles
    \/ StringsChunkPass
    \/ StringsChunksReturn
    \/ FilesChunkPass
    \/ FilesLoopEnd

ChunksInit == IdleMerge /\ InitChunks /\ IdlePool /\ IdleHarvest /\ IdleReset

SpecChunks == ChunksInit /\ [][NextChunks]_vars

NextPool ==
    \/ RunConcurrentWorkers
    \/ StartWorker
    \/ \E w \in 1..Len(workers), hasContext \in BOOLEAN : TaskSettles(w, hasContext)
    \/ PoolJoins

PoolInit == IdleMerge /\ IdleChunks /\ InitPool /\ IdleHarvest /\ IdleReset

SpecPool == PoolInit /\ [][NextPool]_vars

\* harvest is entered with these options; nothing is loaded yet
InitHarvest(optionSet) ==
    /\ options \in optionSet
    /\ hpc = "start"
    /\ exitStatus = -1
    /\ remoteCalls = <<>>
    /\ strings = <<>>
    /\ agentOutcome = <<>>
    /\ reqString = 0
    /\ reqFile = 0
    /\ contexts = <<>>
    /\ stringsContext = <<>>
    /\ rows = <<>>
    /\ patches = <<>>

\* every combination of the options the checks of harvest branch on
ConfigOptions == {o \in AllOptions : o.screen = "none"}

NextConfig == CheckOptions \/ GetCrowdinStrings

ConfigInit == IdleMerge /\ IdleChunks /\ IdlePool /\ IdleReset /\ InitHarvest(ConfigOptions)

SpecConfig == ConfigInit /\ [][NextConfig]_vars

\* the options of the runs that are followed to their output: a known
\* provider with its credential, Crowdin files selected by pattern
RunOptions ==
    {o \in AllOptions : /\ o.csvFileExists /\ o.ai = "openai" /\ o.credential
                        /\ ~o.croql /\ o.crowdinFiles}

AgenticOptions == {o \in RunOptions : o.screen = "none"}

NextAgentic ==
    \/ CheckOptions
    \/ GetCrowdinStrings
    \/ ExtractContextsThrows
    \/ RunConcurrentWorkers
    \/ StartWorker
    \/ \E w \in 1..Len(workers) : TaskSettles(w, WorkerHasContext(w))
    \/ PoolJoins
    \/ ExtractContextsReturns
    \/ AppendContext
    \/ Output

AgenticInit ==
    /\ IdleMerge
    /\ IdleChunks
    /\ items = <<>>
    /\ concurrencyOption \in ConcurrencyOptions
    /\ cursor = 0
    /\ workers = <<>>
    /\ started = 0
    /\ handed = <<>>
    /\ results = <<>>
    /\ wpc = "idle"
    /\ IdleReset
    /\ InitHarvest(AgenticOptions)

SpecAgentic == AgenticInit /\ [][NextAgentic]_vars

----------------------------------------------------------------------------
(* The batch run of harvest: chunkAndExtract's request loop.                *)
(* The identifier of the string with id i is the text "k" i, its text is    *)
(* "t" i; a file body may hold these symbols.                               *)

Identifier(id) == <<"k", ToString(id)>>
StringText(id) == <<"t", ToString(id)>>

\* content.replace(/[\r\n]|\\r|\\n/g, ''): the text without its newlines
Clean(text) ==
    LET notNewline(sym) == sym # "n"
    IN  SelectSeq(text, notNewline)

filterStrings(chunk, content, screen) ==
    LET found(string) ==
            IF screen = "keys" THEN Includes(content, Identifier(string.id))
            ELSE Includes(Clean(content), Clean(StringText(string.id)))
    IN  SelectSeq(chunk, found)

\* the strings of one request: the strings chunk, screened against the text
\* of the files chunk when options.screen asks for it
stringsInFiles(stringsChunk, filesChunk, screen) ==
    IF screen \in {"keys", "texts"}
    THEN filterStrings(stringsChunk, stringifyFiles(filesChunk), screen)
    ELSE stringsChunk

\* an id the model answers with that no string of the run has
UnknownId == 0

\* what executePrompt can return for a request with these strings: no
\* contexts, a context for one of them, an empty context, a context that is
\* a line break only, and a context for an id that was not asked for
\* followed by one that was
ProviderResponses(asked) ==
    {<<>>}
        \cup {<<[id |-> asked[i].id, context |-> <<"a">>]>> : i \in 1..Len(asked)}
        \cup {<<[id |-> asked[i].id, context |-> <<>>]>> : i \in 1..Len(asked)}
        \cup {<<[id |-> asked[i].id, context |-> <<"n">>]>> : i \in 1..Len(asked)}
        \cup {<<[id |-> UnknownId, context |-> <<"a">>],
                [id |-> asked[i].id, context |-> <<"a">>]>> : i \in 1..Len(asked)}

\* a request loop that gives up what it collected when a request throws
contextsLostOnThrow(collected, threw, response) ==
    IF threw THEN <<>> ELSE collected \o response

\* `contexts.push(...(response?.contexts || []))` inside the try of one request
contextsAfterRequest(collected, threw, response) ==
    IF threw THEN collected ELSE collected \o response

\* the strings the batch run loads: none, or as many as the bound allows
BatchStrings(opts) ==
    {strs \in LoadableStrings(opts) :
        /\ Len(strs) \in {0, MaxHarvestStrings}
        /\ \A i \in 1..Len(strs) : strs[i].context = <<>>}

\* harvest (batch): getCrowdin, getCrowdinStrings and the call of
\* chunkAndExtract; each string fills a strings chunk on its own
GetCrowdinStringsBatch ==
    /\ hpc = "load"
    /\ \E projectFound \in BOOLEAN, loaded \in BatchStrings(options) :
            /\ remoteCalls' = remoteCalls \o getCrowdinStringsCalls(options, projectFound)
            /\ IF ~options.append /\ ~projectFound
               THEN /\ hpc' = "exited"
                    /\ exitStatus' = 1
                    /\ UNCHANGED <<strings, crowdinStrings, cpc>>
               ELSE /\ strings' = loaded
                    /\ crowdinStrings' = [i \in 1..Len(loaded) |->
                                            [id |-> loaded[i].id, tok |-> MaxStringTokens]]
                    /\ cpc' = "start"
                    /\ hpc' = "extract"
                    /\ UNCHANGED exitStatus
    /\ UNCHANGED <<options, agentOutcome, reqString, reqFile, contexts, stringsContext,
                   rows, patches>>
    /\ UNCHANGED <<stringsChunkLimit, stringsToProceed, stringsChunks, localFiles,
                   filesChunkLimit, filesContent, filesChunks, tooLarge, queued>>
    /\ UNCHANGED <<mergeVars, poolVars>>
    /\ UNCHANGED resetVars

\* a pass that asks the provider also when screening left no string
RequestPassAlwaysAsks ==
    /\ hpc = "extract"
    /\ cpc = "planned"
    /\ reqString < Len(stringsChunks)
    /\ filesChunks # <<>>
    /\ LET asked == stringsInFiles(stringsChunks[reqString + 1], filesChunks[reqFile + 1],
                                   options.screen)
       IN  \E threw \in BOOLEAN, response \in ProviderResponses(asked) :
                   /\ contexts' = contextsAfterRequest(contexts, threw, response)
                   /\ remoteCalls' = Append(remoteCalls,
                        RemoteCall("executePrompt", threw, IF threw THEN <<>> ELSE response))
    /\ IF reqFile + 1 = Len(filesChunks)
       THEN reqString' = reqString + 1 /\ reqFile' = 0
       ELSE reqFile' = reqFile + 1 /\ UNCHANGED reqString
    /\ UNCHANGED <<options, hpc, exitStatus, strings, agentOutcome, stringsContext, rows, patches>>
    /\ UNCHANGED <<mergeVars, chunkVars, poolVars>>
    /\ UNCHANGED resetVars

\* one pass of the inner loop: the pair (reqString + 1, reqFile + 1).  When
\* screening leaves no string the pass makes no request; else executePrompt
\* returns contexts or throws into the catch of the pass.
RequestPass ==
    /\ hpc = "extract"
    /\ cpc = "planned"
    /\ reqString < Len(stringsChunks)
    /\ filesChunks # <<>>
    /\ LET asked == stringsInFiles(stringsChunks[reqString + 1], filesChunks[reqFile + 1],
                                   options.screen)
       IN  IF asked = <<>>
           THEN UNCHANGED <<contexts, remoteCalls>>
           ELSE \E threw \in BOOLEAN, response \in ProviderResponses(asked) :
                   /\ contexts' = contextsAfterRequest(contexts, threw, response)
                   /\ remoteCalls' = Append(remoteCalls,
                        RemoteCall("executePrompt", threw, IF threw THEN <<>> ELSE response))
    /\ IF reqFile + 1 = Len(filesChunks)
       THEN reqString' = reqString + 1 /\ reqFile' = 0
       ELSE reqFile' = reqFile + 1 /\ UNCHANGED reqString
    /\ UNCHANGED <<options, hpc, exitStatus, strings, agentOutcome, stringsContext, rows, patches>>
    /\ UNCHANGED <<mergeVars, chunkVars, poolVars>>
    /\ UNCHANGED resetVars

\* both loops are through: `return { contexts }`
RequestLoopEnd ==
    /\ hpc = "extract"
    /\ cpc = "planned"
    /\ reqString >= Len(stringsChunks) \/ filesChunks = <<>>
    /\ cpc' = "done"
    /\ UNCHANGED <<mergeVars, poolVars, harvestVars>>
    /\ UNCHANGED <<crowdinStrings, stringsChunkLimit, stringsToProceed, stringsChunks,
                   localFiles, filesChunkLimit, filesContent, filesChunks, tooLarge, queued>>
    /\ UNCHANGED resetVars

\* harvest: chunkAndExtract has returned
ChunkAndExtractReturns ==
    /\ hpc = "extract"
    /\ cpc = "done"
    /\ cpc' = "returned"
    /\ stringsContext' = contexts
    /\ hpc' = "append"
    /\ UNCHANGED <<options, exitStatus, remoteCalls, strings, agentOutcome, reqString,
                   reqFile, contexts, rows, patches>>
    /\ UNCHANGED <<crowdinStrings, stringsChunkLimit, stringsToProceed, stringsChunks,
                   localFiles, filesChunkLimit, filesContent, filesChunks, tooLarge, queued>>
    /\ UNCHANGED <<mergeVars, poolVars>>
    /\ UNCHANGED resetVars

\* the local files of the batch run: one mentions the key of string 1 and the
\* text of string 2, the other the text of string 2 across a line break
KeyFile == [id |-> 1, pathLen |-> 1, body |-> Identifier(1) \o StringText(2), readable |-> TRUE]
TextFile == [id |-> 2, pathLen |-> 1, body |-> <<"t", "n", "2">>, readable |-> TRUE]
BatchFiles == {<<>>, <<KeyFile>>, <<KeyFile, TextFile>>}

BatchOptions == RunOptions

BatchInit ==
    /\ IdleMerge
    /\ IdlePool
    /\ crowdinStrings = <<>>
    /\ stringsChunkLimit = SerializedTokens(<<TwoStrings[1]>>)
    /\ localFiles \in BatchFiles
    /\ filesChunkLimit \in {Tokens(FileText(KeyFile)), Tokens(FileText(KeyFile)) + Tokens(FileText(TextFile))}
    /\ stringsToProceed = <<>>
    /\ stringsChunks = <<>>
    /\ filesContent = <<>>
    /\ filesChunks = <<>>
    /\ tooLarge = {}
    /\ queued = {}
    /\ cpc = "idle"
    /\ IdleReset
    /\ InitHarvest(BatchOptions)

NextBatch ==
    \/ CheckOptions
    \/ GetCrowdinStringsBatch
    \/ NoFilesFound
    \/ CollectFiles
    \/ StringsChunkPass
    \/ StringsChunksReturn
    \/ FilesChunkPass
    \/ FilesLoopEnd
    \/ RequestPass
    \/ RequestLoopEnd
    \/ ChunkAndExtractReturns
    \/ AppendContext
    \/ Output

SpecBatch == BatchInit /\ [][NextBatch]_vars


----------------------------------------------------------------------------
(* The batch run with screening by keys, also on a file that has to be      *)
(* split.                                                                   *)

\* a local file that mentions the key of string 1 after three other characters
LateKeyFile ==
    [id |-> 1, pathLen |-> 1, body |-> <<"x", "x", "x">> \o Identifier(1), readable |-> TRUE]

\* the files budgets: one that holds a part header and one more character,
\* one that holds KeyFile, one that holds KeyFile and TextFile
ScreenInit ==
    /\ IdleMerge
    /\ IdlePool
    /\ crowdinStrings = <<>>
    /\ stringsChunkLimit = SerializedTokens(<<TwoStrings[1]>>)
    /\ localFiles \in {<<>>, <<KeyFile>>, <<LateKeyFile>>, <<KeyFile, TextFile>>}
    /\ filesChunkLimit \in {Tokens(PartHeader(1, <<1>>)) + 1,
                            Tokens(FileText(KeyFile)),
                            Tokens(FileText(KeyFile)) + Tokens(FileText(TextFile))}
    /\ stringsToProceed = <<>>
    /\ stringsChunks = <<>>
    /\ filesContent = <<>>
    /\ filesChunks = <<>>
    /\ tooLarge = {}
    /\ queued = {}
    /\ cpc = "idle"
    /\ IdleReset
    /\ InitHarvest({o \in RunOptions : o.screen = "keys"})

SpecScreen == ScreenInit /\ [][NextBatch]_vars

----------------------------------------------------------------------------
(* The files loop on one file, up to a file that needs every round of the   *)
(* split loop.                                                              *)

\* a body whose fenced text ("<", the body, ">") has 2^maxNumbersOfSplit
\* characters: after that many rounds every fragment is one character
CeilingBody == Repeat("x", 2 ^ maxNumbersOfSplit - 2)

SplitFiles ==
    {<<[id |-> 1, pathLen |-> 1, body |-> b, readable |-> TRUE]>> :
        b \in {Repeat("x", n) : n \in 0..MaxBody} \cup {CeilingBody}}

SplitInit ==
    /\ IdleMerge
    /\ IdlePool
    /\ IdleHarvest
    /\ IdleReset
    /\ crowdinStrings = <<>>
    /\ stringsChunkLimit = 1
    /\ localFiles \in SplitFiles
    /\ filesChunkLimit \in 1..MaxFilesLimit
    /\ stringsToProceed = <<>>
    /\ stringsChunks = <<>>
    /\ filesContent = <<>>
    /\ filesChunks = <<>>
    /\ tooLarge = {}
    /\ queued = {}
    /\ cpc = "start"

NextSplit ==
    \/ CollectFiles
    \/ StringsChunksReturn
    \/ FilesChunkPass
    \/ FilesLoopEnd

SpecSplit == SplitInit /\ [][NextSplit]_vars

----------------------------------------------------------------------------
(* The upload command: rows of a reviewed CSV file go to Crowdin.           *)

\* String.prototype.split('\n')
RECURSIVE SplitLines(_)
SplitLines(text) ==
    LET at == IndexOf(text, <<"n">>)
    IN  IF at = -1 THEN <<text>>
        ELSE <<Substring(text, 0, at)>> \o SplitLines(SubstringFrom(text, at + 1))

\* row.aiContext.split('\n').filter(line => line.trim() !== '')
NonBlankLines(text) ==
    LET notBlank(line) == line # <<>>
    IN  SelectSeq(SplitLines(text), notBlank)

\* the cells of the context and the aiContext column
ContextCells == {<<>>, <<"a">>, <<"a">> \o aiContextSection \o <<"a">> \o endAiContextSection}
AiContextCells == {<<>>, <<"a">>, <<"a", "n", "n", "a">>}

\* what csvtojson returns: rows with an id; the file has a context column or
\* not, and an aiContext column or not
CsvRows ==
    UNION {{[i \in 1..n |-> [id |-> i,
                             context |-> IF hasContext THEN c[i] ELSE Undefined,
                             aiContext |-> IF hasAiContext THEN CsvCell(a[i]) ELSE NoAiContext]] :
                c \in [1..n -> ContextCells], a \in [1..n -> AiContextCells],
                hasContext \in BOOLEAN, hasAiContext \in BOOLEAN} :
           n \in 0..MaxRows}

\* strings.map(row => ...): the aiContext cell becomes the array of its lines
mapRows(csvRows) ==
    [i \in 1..Len(csvRows) |->
        [id |-> csvRows[i].id,
         context |-> csvRows[i].context,
         aiContext |-> IF csvRows[i].aiContext = NoAiContext THEN NoAiContext
                       ELSE NonBlankLines(csvRows[i].aiContext[2])]]

\* typeof strings[0].aiContext === 'undefined'
uploadAllOf(strs) == strs[1].aiContext = NoAiContext

\* the upload command from reading the CSV file to its end.  Reading
\* strings[0].aiContext of an empty file, an exception of
\* uploadAiStringsToCrowdin and a rejected batch request end in the catch,
\* which exits with status 1.
Upload ==
    /\ hpc = "upload"
    /\ strings' = mapRows(strings)
    /\ IF strings = <<>> \/ uploadThrows(mapRows(strings), uploadAllOf(mapRows(strings)))
       THEN /\ hpc' = "exited"
            /\ exitStatus' = 1
            /\ UNCHANGED <<patches, remoteCalls>>
       ELSE \E accepted \in BOOLEAN :
            /\ patches' = uploadAiStringsToCrowdin(patches, mapRows(strings),
                                                   uploadAllOf(mapRows(strings)))
            /\ remoteCalls' = Append(remoteCalls,
                                     RemoteCall("stringBatchOperations", ~accepted, <<>>))
            /\ hpc' = IF accepted THEN "done" ELSE "exited"
            /\ exitStatus' = IF accepted THEN 0 ELSE 1
    /\ UNCHANGED <<options, agentOutcome, reqString, reqFile, contexts, stringsContext, rows>>
    /\ UNCHANGED <<mergeVars, chunkVars, poolVars>>
    /\ UNCHANGED resetVars

NextUpload == Upload

UploadInit ==
    /\ IdleMerge
    /\ IdleChunks
    /\ IdlePool
    /\ IdleReset
    /\ options = [output |-> "crowdin"]
    /\ hpc = "upload"
    /\ exitStatus = -1
    /\ remoteCalls = <<>>
    /\ strings \in CsvRows
    /\ agentOutcome = <<>>
    /\ reqString = 0
    /\ reqFile = 0
    /\ contexts = <<>>
    /\ stringsContext = <<>>
    /\ rows = <<>>
    /\ patches = <<>>

SpecUpload == UploadInit /\ [][NextUpload]_vars

----------------------------------------------------------------------------
(* The reset command: the AI context is taken off the strings of the        *)
(* project, container by container.                                         *)

\* the contexts Crowdin holds: none, an empty one, one without a marker, one
\* with an AI section, one with an end marker and no section
ResetContexts ==
    {Undefined, <<>>, <<"a">>,
     <<"a">> \o aiContextSection \o <<"a">> \o endAiContextSection,
     <<"a">> \o AI_CONTEXT_SECTION_END}

\* the strings of the container at this place; ids are unique in the project
ContainerStrings(place) ==
    UNION {{[i \in 1..n |-> [id |-> (place - 1) * MaxContainerStrings + i, context |-> c[i]]] :
                c \in [1..n -> ResetContexts]} : n \in 0..MaxContainerStrings}

ProjectContainers ==
    UNION {{cs \in [1..n -> UNION {ContainerStrings(place) : place \in 1..n}] :
                \A place \in 1..n : cs[place] \in ContainerStrings(place)} :
           n \in 0..MaxContainers}

\* `string?.context?.indexOf(AI_CONTEXT_SECTION_END) !== -1`: for a context
\* that is null or undefined the left side is undefined, which is not -1
hasAiContextEnd(string) ==
    IF string.context = Undefined THEN TRUE
    ELSE IndexOf(string.context, AI_CONTEXT_SECTION_END) # -1

\* uploadWithoutAiStringsToCrowdin: the batch request it sends
uploadWithoutAiStringsToCrowdin(strs) ==
    [i \in 1..Len(strs) |->
        [op |-> "replace", path |-> strs[i].id, value |-> removeAIContext(strs[i].context)]]

\* reset up to its loop: getProject and the listing of the containers; a
\* failure of either ends the process with status 1
ResetLoads ==
    /\ hpc = "reset"
    /\ \E projectFound \in BOOLEAN, listed \in BOOLEAN :
         /\ remoteCalls' = remoteCalls
                \o <<RemoteCall("getProject", ~projectFound, <<>>)>>
                \o (IF projectFound
                    THEN <<RemoteCall("listProjectFiles", ~listed, <<>>)>> ELSE <<>>)
         /\ hpc' = IF projectFound /\ listed THEN "resetLoop" ELSE "exited"
         /\ exitStatus' = IF projectFound /\ listed THEN exitStatus ELSE 1
    /\ UNCHANGED <<options, strings, agentOutcome, reqString, reqFile, contexts,
                   stringsContext, rows, patches>>
    /\ UNCHANGED <<mergeVars, chunkVars, poolVars, resetVars>>

\* one pass of the loop over the containers: the strings of the container
\* are added to `strings` (which is not emptied between the passes), the
\* list is filtered and sent.  A failed listing goes on with the next
\* container; a rejected batch request ends the process with status 1.
ResetContainer ==
    /\ hpc = "resetLoop"
    /\ container < Len(containers)
    /\ container' = container + 1
    /\ \E fetched \in BOOLEAN, accepted \in BOOLEAN :
         IF ~fetched
         THEN /\ remoteCalls' = Append(remoteCalls, RemoteCall("listProjectStrings", TRUE, <<>>))
              /\ UNCHANGED <<strings, patches, hpc, exitStatus>>
         ELSE LET kept == SelectSeq(strings \o containers[container + 1], hasAiContextEnd)
              IN  /\ strings' = kept
                  /\ patches' = Append(patches, uploadWithoutAiStringsToCrowdin(kept))
                  /\ remoteCalls' = remoteCalls
                        \o <<RemoteCall("listProjectStrings", FALSE, <<>>),
                             RemoteCall("stringBatchOperations", ~accepted, <<>>)>>
                  /\ hpc' = IF accepted THEN hpc ELSE "exited"
                  /\ exitStatus' = IF accepted THEN exitStatus ELSE 1
    /\ UNCHANGED <<options, agentOutcome, reqString, reqFile, contexts, stringsContext, rows>>
    /\ UNCHANGED <<mergeVars, chunkVars, poolVars, containers>>

\* the loop is through: reset returns
ResetEnds ==
    /\ hpc = "resetLoop"
    /\ container = Len(containers)
    /\ hpc' = "done"
    /\ exitStatus' = 0
    /\ UNCHANGED <<options, remoteCalls, strings, agentOutcome, reqString, reqFile, contexts,
                   stringsContext, rows, patches>>
    /\ UNCHANGED <<mergeVars, chunkVars, poolVars, resetVars>>

NextReset == ResetLoads \/ ResetContainer \/ ResetEnds

ResetInit ==
    /\ IdleMerge
    /\ IdleChunks
    /\ IdlePool
    /\ options = [output |-> "crowdin"]
    /\ hpc = "reset"
    /\ exitStatus = -1
    /\ remoteCalls = <<>>
    /\ strings = <<>>
    /\ agentOutcome = <<>>
    /\ reqString = 0
    /\ reqFile = 0
    /\ contexts = <<>>
    /\ stringsContext = <<>>
    /\ rows = <<>>
    /\ patches = <<>>
    /\ containers \in ProjectContainers
    /\ container = 0

SpecReset == ResetInit /\ [][NextReset]_vars

----------------------------------------------------------------------------
(* Claims about the merge engine *)

\* C1: merge idempotence -- for every context c and fragment list F,
\* appendAiContext(appendAiContext(c, F), F) = appendAiContext(c, F): the
\* second append of the same fragments returns what the first returned.
C1_MergeIdempotence ==
    applied = <<"append", "append">> => merged = previous

ContainsText(s, pat) == IndexOf(s, pat) # -1

\* the context holds neither section marker
NoMarker(s) ==
    /\ ~ContainsText(s, aiContextSection)
    /\ ~ContainsText(s, endAiContextSection)

\* C2: merge round-trip -- for every context c that does not contain the
\* section markers and every fragment list F,
\* removeAIContext(appendAiContext(c, F)) = c.
C2_MergeRoundTrip ==
    (applied = <<"append", "remove">> /\ NoMarker(context)) => merged = context

BothMarkers(s) ==
    /\ s # Undefined
    /\ ContainsText(s, aiContextSection)
    /\ ContainsText(s, endAiContextSection)

\* The AI section of a text: it opens at the first start marker (with the
\* blank line before it) and closes with the first end marker after it; the
\* end marker may share the newline that closes the start marker.
SectionBodyFrom(s) == IndexOf(s, aiContextSection) + Len(aiContextSection) - 1
SectionEndIn(s) == IndexOf(SubstringFrom(s, SectionBodyFrom(s)), endAiContextSection)
HasSection(s) == BothMarkers(s) /\ SectionEndIn(s) # -1
BeforeSection(s) == Substring(s, 0, IndexOf(s, aiContextSection))
AfterSection(s) ==
    SubstringFrom(s, SectionBodyFrom(s) + SectionEndIn(s) + Len(endAiContextSection))

\* the text without its AI section; a text that has none is left as it is
WithoutSection(s) ==
    IF HasSection(s) THEN BeforeSection(s) \o AfterSection(s) ELSE s

\* how many times pat occurs in s
Occurrences(s, pat) ==
    Cardinality({i \in 0..(Len(s) - Len(pat)) : SubSeq(s, i + 1, i + Len(pat)) = pat})

\* C19: strip -- removeAIContext(c) returns c unchanged when c is empty or
\* undefined or when either marker is absent; when both markers are present
\* it returns c with the entire section removed (start marker with its
\* preceding blank line, body, end marker), i.e. the text before the section
\* followed by the text after it.
C19_Strip ==
    (applied = <<"remove">>) =>
        IF BothMarkers(context) THEN merged = WithoutSection(context)
        ELSE merged = context

\* C20: replace, not duplicate -- for every context c in which both markers
\* are present and every fragment list F, appendAiContext(c, F) contains
\* exactly one AI section, its body is the newline-joined F, and the text of
\* c outside the old section is preserved unchanged.
C20_ReplaceNotDuplicate ==
    (applied = <<"append">> /\ BothMarkers(context)) =>
        /\ Occurrences(merged, aiContextSection) = 1
        /\ HasSection(context) =>
                merged = BeforeSection(context)
                            \o aiContextSection \o JoinLines(aiContext) \o endAiContextSection
                            \o AfterSection(context)

\* C30: strip completeness -- for every context c, the result of
\* removeAIContext(c) contains no AI section any more (no start marker
\* followed later by an end marker), so one reset leaves no AI context
\* behind, and removeAIContext(removeAIContext(c)) = removeAIContext(c).
C30_StripCompleteness ==
    /\ applied = <<"remove">> => ~HasSection(merged)
    /\ applied = <<"remove", "remove">> => merged = previous

----------------------------------------------------------------------------
(* Claims about the chunk planner *)

getStringsChunksReturned == cpc \in {"filesLoop", "planned"}

OversizedAlone(string, limit) == SerializedTokens(<<string>>) > limit

\* C3: getStringsChunks terminates -- every pass of its loop takes at least
\* one string off stringsToProceed, and a pass that meets a string whose own
\* serialized form exceeds the chunk limit emits a chunk holding just that
\* string.
C3_OversizedStringAlone ==
    [][(stringsChunks' # stringsChunks) =>
         /\ Len(stringsToProceed') < Len(stringsToProceed)
         /\ (OversizedAlone(Head(stringsToProceed), stringsChunkLimit) =>
                stringsChunks'[Len(stringsChunks')] = <<Head(stringsToProceed)>>)]_vars

\* how often the text with this key was emitted, over all files chunks
RECURSIVE CountKey(_, _)
CountKey(entries, key) ==
    IF entries = <<>> THEN 0
    ELSE (IF Head(entries).key = key THEN 1 ELSE 0) + CountKey(Tail(entries), key)

RECURSIVE Emitted(_, _)
Emitted(chunks, key) ==
    IF chunks = <<>> THEN 0 ELSE CountKey(Head(chunks), key) + Emitted(Tail(chunks), key)

\* C4: file chunk coverage -- when the files loop ends, every readable file
\* that was not reported too large is in the emitted files chunks exactly
\* once (whole, or each of its fragments exactly once).
C4_FileChunkCoverage ==
    cpc = "planned" => \A key \in queued : Emitted(filesChunks, key) = 1

\* C5: string chunk coverage -- for strings with distinct ids, every input
\* string is a member of exactly one returned chunk, and every chunk member
\* is an input string.
C5_StringChunkCoverage ==
    getStringsChunksReturned =>
        /\ \A i \in 1..Len(crowdinStrings) :
              Cardinality({c \in 1..Len(stringsChunks) :
                  \E m \in 1..Len(stringsChunks[c]) :
                      stringsChunks[c][m] = crowdinStrings[i]}) = 1
        /\ \A c \in 1..Len(stringsChunks) : \A m \in 1..Len(stringsChunks[c]) :
              /\ \E i \in 1..Len(crowdinStrings) : crowdinStrings[i] = stringsChunks[c][m]
              /\ \A m2 \in 1..Len(stringsChunks[c]) :
                    stringsChunks[c][m2].id = stringsChunks[c][m].id => m2 = m

C5_Witness ==
    /\ getStringsChunksReturned
    /\ Len(crowdinStrings) = MaxStrings
    /\ Len(stringsChunks) >= 2
    /\ \E c \in 1..Len(stringsChunks) : Len(stringsChunks[c]) >= 2

\* C6: chunk budget -- every emitted strings chunk serializes to at most the
\* strings chunk limit and every emitted files chunk concatenates to at most
\* the files chunk limit, except a chunk of exactly one member.
C6_ChunkBudget ==
    /\ \A c \in 1..Len(stringsChunks) :
          \/ SerializedTokens(stringsChunks[c]) <= stringsChunkLimit
          \/ Len(stringsChunks[c]) = 1
    /\ \A c \in 1..Len(filesChunks) :
          \/ Tokens(stringifyFiles(filesChunks[c])) <= filesChunkLimit
          \/ Len(filesChunks[c]) = 1

C6_Witness ==
    /\ cpc = "planned"
    /\ Len(stringsChunks) >= 2
    /\ Len(filesChunks) >= 2
    /\ \E c \in 1..Len(filesChunks) :
          /\ Len(filesChunks[c]) >= 2
          /\ Tokens(stringifyFiles(filesChunks[c])) = filesChunkLimit

\* the ids of the members of a chunk, in the order of the input string list
InsertionOrder(chunk) ==
    LET inChunk(string) == string.id \in ChunkIds(chunk)
        kept == SelectSeq(crowdinStrings, inChunk)
    IN  [m \in 1..Len(kept) |-> kept[m].id]

\* C22: string serialization -- the serialized form of a strings chunk holds,
\* for each member, only the fields id, text, identifier and context, and
\* lists the members in the order in which they were inserted into the chunk
\* (the order of the input string list).
C22_StringSerialization ==
    \A c \in 1..Len(stringsChunks) :
        LET serialized == stringifyStrings(stringsChunks[c])
        IN  /\ \A m \in 1..Len(serialized) :
                  DOMAIN serialized[m] = {"id", "text", "identifier", "context"}
            /\ [m \in 1..Len(serialized) |-> serialized[m].id] = InsertionOrder(stringsChunks[c])

----------------------------------------------------------------------------
(* Claims about the worker pool *)

InFlight == {w \in 1..Len(workers) : workers[w].pc = "await"}

\* C7: exactly-once claiming -- no item is handed to the worker function
\* twice, and when runConcurrentWorkers returns every item has been handed
\* to it exactly once (none skipped).
C7_ExactlyOnce ==
    /\ \A i \in 1..Len(items) : handed[i] <= 1
    /\ wpc = "returned" => \A i \in 1..Len(items) : handed[i] = 1

\* C8: worker-count clamp -- whatever value the concurrency option has,
\* extractContexts runs the pool of a non-empty list with at least one worker.
C8_AtLeastOneWorker ==
    (wpc \in {"pool", "returned"} /\ items # <<>>) => Len(workers) >= 1

\* C9: join -- at the moment runConcurrentWorkers returns, the queue is
\* exhausted and no task is in flight.
C9_JoinAfterExhaustion ==
    wpc = "returned" => (cursor >= Len(items) /\ InFlight = {})

\* the pool size the option configures: max(1, concurrency)
ConfiguredPoolSize ==
    IF concurrencyOption.numeric /\ concurrencyOption.n > 1 THEN concurrencyOption.n ELSE 1

\* C10: bounded pool -- the number of agent invocations in flight never
\* exceeds max(1, concurrency).
C10_BoundedPool == Cardinality(InFlight) <= ConfiguredPoolSize

C10_Witness ==
    /\ Cardinality(InFlight) = ConfiguredPoolSize
    /\ ConfiguredPoolSize >= 2
    /\ Len(items) > ConfiguredPoolSize
    /\ cursor > ConfiguredPoolSize

----------------------------------------------------------------------------
(* Claims about the options of harvest *)

\* the option-validation failures: an unknown provider, a missing credential,
\* an output that is none of the three, --append without csv output or
\* without the CSV file
InvalidOptions(opts) ==
    \/ opts.ai # "openai"
    \/ ~opts.credential
    \/ opts.output \notin {"terminal", "csv", "crowdin"}
    \/ opts.append /\ (opts.output # "csv" \/ ~opts.csvFileExists)

\* C17: configuration errors are fatal -- every option-validation failure of
\* harvest ends the process with a non-zero exit status before any call that
\* loads the project or asks the provider.
C17_ConfigurationErrorsFatal ==
    (hpc # "start" /\ InvalidOptions(options)) =>
        /\ hpc = "exited"
        /\ exitStatus > 0
        /\ remoteCalls = <<>>

\* C18: mutually exclusive filters -- when both --crowdinFiles and --croql are
\* supplied the run is rejected before any strings are listed and before any
\* extraction starts.
C18_ExclusiveFilters ==
    (options.croql /\ options.crowdinFiles) =>
        /\ ~CalledAny({"listProjectStrings"})
        /\ hpc \in {"start", "load", "exited"}

----------------------------------------------------------------------------
(* Claims about the agentic run of harvest *)

\* the results a provider with fixed answers gives for the strings, in the
\* order of the strings
ExpectedContexts ==
    LET answered(id) == agentOutcome[id] = "context"
        ids == SelectSeq(items, answered)
    IN  [k \in 1..Len(ids) |-> [id |-> ids[k], context |-> AgentContext(ids[k])]]

\* the rows of the strings that have extracted context, in the order of the strings
ExpectedRows(strs, withContext) ==
    LET extracted(string) == string.aiContext \notin {NoAiContext, CsvCell(<<>>)}
        kept == SelectSeq(strs, extracted)
    IN  [i \in 1..Len(kept) |->
            [id |-> kept[i].id,
             context |-> IF withContext THEN kept[i].context ELSE <<>>,
             aiContext |-> JoinLines(kept[i].aiContext)]]

\* C11: concurrency determinism -- for strings with unique ids and a provider
\* that returns a fixed fragment per string id, the extracted context of each
\* string after appendContext, and the rows written to the CSV file or the
\* terminal (the strings that have extracted context, in the order of the
\* strings), are the same for every pool of at least one worker and every
\* order in which the tasks complete.
C11_ConcurrencyDeterminism ==
    [][/\ (hpc = "append" /\ hpc' = "output" /\ wpc = "done" /\ Len(workers) >= 1) =>
            strings' = appendContext(strings, ExpectedContexts)
       /\ (hpc = "output" /\ hpc' = "done" /\ wpc = "done" /\ Len(workers) >= 1
                /\ options.output \in {"terminal", "csv"} /\ rows' # rows) =>
            rows' = ExpectedRows(strings, options.output = "csv")]_vars


\* C14: per-string failure tolerance -- an agent invocation that throws, that
\* reaches the recursion limit, or that ends without a non-empty
\* return_context result yields no context for that string only; the worker
\* goes on to the next string, the contexts of all other strings are kept,
\* and the run goes on towards the output step.
C14_PerStringFailureTolerance ==
    /\ \A k \in 1..Len(results) : agentOutcome[results[k]] = "context"
    /\ wpc \in {"returned", "done"} =>
        /\ \A i \in 1..Len(items) :
              (handed[i] >= 1 /\ agentOutcome[items[i]] = "context") =>
                  \E k \in 1..Len(results) : results[k] = items[i]
        /\ Len(workers) >= 1 => \A i \in 1..Len(items) : handed[i] = 1
        /\ hpc \in {"extract", "append", "output", "done"}
        /\ exitStatus \in {-1, 0}

\* one worker met a string whose invocation failed and then extracted the
\* context of the next string; harvest is at its output step
C14_Witness ==
    /\ hpc = "output"
    /\ Len(workers) = 1
    /\ \E i \in 1..Len(items) : \E j \in (i + 1)..Len(items) :
          /\ agentOutcome[items[i]] \in {"throws", "limit", "noTool", "blank"}
          /\ strings[i].aiContext = NoAiContext
          /\ strings[j].aiContext = <<AgentContext(items[j])>>

\* C15: output-sink exclusivity -- stringBatchOperations is called only when
\* the output option is 'crowdin'; with 'terminal' or 'csv' nothing is
\* written to the Crowdin project.
C15_OutputSinkExclusivity ==
    (patches # <<>> \/ CalledAny({"stringBatchOperations"})) => options.output = "crowdin"

\* a dry run or a CSV run ended, wrote its rows and sent no patch
C15_Witness ==
    /\ hpc = "done"
    /\ options.output \in {"terminal", "csv"}
    /\ rows # <<>>
    /\ patches = <<>>

\* the step calls stringBatchOperations
RemoteWrite ==
    \/ patches' # patches
    \/ /\ Len(remoteCalls') > Len(remoteCalls)
       /\ remoteCalls'[Len(remoteCalls')].call = "stringBatchOperations"

\* every result of the extraction is among the fragments of its string
ResultsMerged ==
    \A k \in 1..Len(results) :
        LET i == Find(strings, results[k])
        IN  /\ i # 0
            /\ IsArray(strings[i].aiContext)
            /\ \E f \in 1..Len(strings[i].aiContext) :
                  strings[i].aiContext[f] = AgentContext(results[k])

\* C24: write at the very end -- in a harvest run with output 'crowdin' the
\* remote write happens only after every extraction task has completed and
\* all results have been merged onto the strings; no remote write is issued
\* while an agent call is in flight, and at most one batch write is issued
\* per run.
C24_WriteAtTheVeryEnd ==
    [][RemoteWrite =>
         /\ options.output = "crowdin"
         /\ InFlight = {}
         /\ wpc \in {"done", "failed"}
         /\ ResultsMerged
         /\ patches = <<>> /\ Len(patches') = 1
         /\ ~CalledAny({"stringBatchOperations"})]_vars

\* a pool of two or more workers extracted two contexts, and the run ended
\* with its one batch write
C24_Witness ==
    /\ hpc = "done"
    /\ options.output = "crowdin"
    /\ Len(workers) >= 2
    /\ Len(results) >= 2
    /\ Len(patches) = 1
    /\ Len(patches[1]) >= 2

\* the string has new fragments
HasNewFragments(string) == IsArray(string.aiContext) /\ string.aiContext # <<>>

\* C29: write-back with missing context -- when uploadAiStringsToCrowdin is
\* given a string that has new fragments but whose existing context is
\* empty, null or undefined, it produces for it a patch consisting of just
\* the AI section, and the patches of all other strings in the same run are
\* still sent.
C29_WriteBackMissingContext ==
    (hpc = "done" /\ options.output = "crowdin") =>
        /\ Len(patches) = 1
        /\ \A i \in 1..Len(strings) :
              HasNewFragments(strings[i]) =>
                  \E o \in 1..Len(patches[1]) :
                      /\ patches[1][o].path = strings[i].id
                      /\ strings[i].context \in {Undefined, <<>>} =>
                            patches[1][o].value =
                                aiContextSection \o JoinLines(strings[i].aiContext)
                                    \o endAiContextSection

----------------------------------------------------------------------------
(* Claims about the batch run of harvest *)

\* the results whose id is the id of one of the strings
KnownOnly(ctxs, strs) ==
    LET known(ctx) == Find(strs, ctx.id) # 0
    IN  SelectSeq(ctxs, known)

\* C12: result-id filtering -- a result whose id matches no string of the run
\* is dropped by appendContext: the strings after appendContext are what they
\* would be had the list held only the results with known ids, so no string
\* changes because of the unknown one and the other results are applied as
\* they would be without it.
C12_ResultIdFiltering ==
    [][(hpc = "append" /\ hpc' = "output") =>
            strings' = appendContext(strings, KnownOnly(stringsContext, strings))]_vars

\* a result with an unknown id came before a result for a string of the run,
\* and that string has got its context
C12_Witness ==
    /\ hpc = "output"
    /\ \E k \in 1..(Len(stringsContext) - 1) :
          /\ Find(strings, stringsContext[k].id) = 0
          /\ Find(strings, stringsContext[k + 1].id) # 0
          /\ strings[Find(strings, stringsContext[k + 1].id)].aiContext
                = <<stringsContext[k + 1].context>>

\* the contexts of the requests that returned, in the order of the requests
RECURSIVE ReturnedContexts(_)
ReturnedContexts(calls) ==
    IF calls = <<>> THEN <<>>
    ELSE (IF Head(calls).call = "executePrompt" /\ ~Head(calls).threw
          THEN Head(calls).response ELSE <<>>)
            \o ReturnedContexts(Tail(calls))

Requests == {i \in 1..Len(remoteCalls) : remoteCalls[i].call = "executePrompt"}

\* the pairs of a strings chunk and a files chunk with a string left after screening
PairsWithStrings ==
    {pair \in (1..Len(stringsChunks)) \X (1..Len(filesChunks)) :
        stringsInFiles(stringsChunks[pair[1]], filesChunks[pair[2]], options.screen) # <<>>}

\* C13: batch partial-failure tolerance -- when the provider call of one
\* request throws, the contexts returned by all earlier and all later
\* requests are in the result of chunkAndExtract (every pair with strings was
\* still requested), and the run goes on to appendContext and the output.
C13_BatchPartialFailure ==
    hpc \in {"append", "output", "done"} =>
        /\ stringsContext = ReturnedContexts(remoteCalls)
        /\ Cardinality(Requests) = Cardinality(PairsWithStrings)
        /\ exitStatus \in {-1, 0}

\* a request threw between two requests that returned contexts; harvest is
\* at its output step
C13_Witness ==
    /\ hpc = "output"
    /\ \E i, j, k \in Requests :
          /\ i < j /\ j < k
          /\ ~remoteCalls[i].threw /\ remoteCalls[i].response # <<>>
          /\ remoteCalls[j].threw
          /\ ~remoteCalls[k].threw /\ remoteCalls[k].response # <<>>
          /\ Len(stringsContext) >= 2

\* the number of pairs the request loop has been through, counted with the
\* strings chunk as the outer loop
PairsVisited == reqString * Len(filesChunks) + reqFile

\* the step appends a call of the provider to the calls made so far
AsksProvider ==
    /\ Len(remoteCalls') = Len(remoteCalls) + 1
    /\ remoteCalls'[Len(remoteCalls')].call = "executePrompt"

\* C25: requests per chunk pair -- chunkAndExtract visits every pair of a
\* strings chunk and a files chunk once, in emission order with the strings
\* chunk as the outer loop; it issues exactly one provider call for a pair
\* when at least one string remains after screening and none otherwise; with
\* no local file or no string it issues no provider call and returns no
\* context.
C25_RequestsPerChunkPair ==
    [][/\ (<<reqString', reqFile'>> # <<reqString, reqFile>>) =>
            /\ reqString < Len(stringsChunks) /\ reqFile < Len(filesChunks)
            /\ PairsVisited' = PairsVisited + 1
            /\ IF stringsInFiles(stringsChunks[reqString + 1], filesChunks[reqFile + 1],
                                 options.screen) # <<>>
               THEN AsksProvider
               ELSE remoteCalls' = remoteCalls
       /\ AsksProvider => <<reqString', reqFile'>> # <<reqString, reqFile>>
       /\ (cpc # "done" /\ cpc' = "done") =>
            /\ PairsVisited = Len(stringsChunks) * Len(filesChunks)
            /\ (localFiles = <<>> \/ crowdinStrings = <<>>) =>
                    (Requests = {} /\ contexts = <<>>)]_vars

\* two strings chunks and two files chunks were planned; with screening by
\* key some of the four pairs were requested and some were not
C25_Witness ==
    /\ cpc = "returned"
    /\ Len(stringsChunks) = 2
    /\ Len(filesChunks) = 2
    /\ options.screen = "keys"
    /\ Requests # {}
    /\ Cardinality(Requests) < 4

\* the local files whose content reached the files loop and was not
\* reported too large
ProcessedFiles ==
    {f \in 1..Len(localFiles) : localFiles[f].readable /\ <<localFiles[f].id>> \notin tooLarge}

\* C28: screening completeness -- with screening mode 'keys', every string
\* whose key occurs literally in the content of some processed local file is
\* sent to the provider in at least one request whose code section contains
\* that occurrence, also when that file had to be split into fragments.
C28_ScreeningCompleteness ==
    (cpc \in {"done", "returned"} /\ options.screen = "keys") =>
        \A s \in 1..Len(crowdinStrings) : \A f \in ProcessedFiles :
            Includes(localFiles[f].body, Identifier(crowdinStrings[s].id)) =>
                \E pair \in PairsWithStrings :
                    /\ \E m \in 1..Len(stringsChunks[pair[1]]) :
                          stringsChunks[pair[1]][m].id = crowdinStrings[s].id
                    /\ Includes(stringifyFiles(filesChunks[pair[2]]),
                                Identifier(crowdinStrings[s].id))

----------------------------------------------------------------------------
(* Claims about the upload to Crowdin *)

\* the ids of the strings that have at least one new fragment
WithFragments(strs) ==
    LET hasFragment(string) == string.aiContext # NoAiContext /\ string.aiContext # <<>>
        kept == SelectSeq(strs, hasFragment)
    IN  [i \in 1..Len(kept) |-> kept[i].id]

\* C16: batch-patch content -- uploadAiStringsToCrowdin issues a single batch
\* call; it holds exactly one 'replace' operation on /{id}/context for each
\* string that has at least one new fragment and none for any other string;
\* in upload-all mode it holds one operation for every loaded row, whose
\* value is the context of the row verbatim.
C16_BatchPatchContent ==
    (hpc \in {"done", "exited"} /\ strings # <<>>) =>
        /\ Len(patches) = 1
        /\ \A i \in 1..Len(patches[1]) : patches[1][i].op = "replace"
        /\ IF uploadAllOf(strings)
           THEN /\ Len(patches[1]) = Len(strings)
                /\ \A i \in 1..Len(strings) :
                      /\ patches[1][i].path = strings[i].id
                      /\ patches[1][i].value = strings[i].context
           ELSE [i \in 1..Len(patches[1]) |-> patches[1][i].path] = WithFragments(strings)

----------------------------------------------------------------------------
(* Claims about the extracted context *)

\* the text is empty or holds white space only
IsBlank(text) == \A k \in 1..Len(text) : text[k] = "n"

\* the extracted-context list of a string; a string that has none yet (no
\* aiContext, or an empty cell of a CSV record) has the empty list
ExtractedContext(string) ==
    IF IsArray(string.aiContext) THEN string.aiContext
    ELSE IF Truthy(string.aiContext) THEN <<string.aiContext[2]>>
    ELSE <<>>

IsPrefix(short, long) ==
    /\ Len(short) <= Len(long)
    /\ SubSeq(long, 1, Len(short)) = short

\* C21: extracted-context invariant -- in every step of a run the
\* extracted-context list of each string only grows by appends, and it never
\* gets an empty or whitespace-only entry, whatever context text the provider
\* returns.
C21_ExtractedContextInvariant ==
    [][(strings # <<>> /\ Len(strings') = Len(strings)) =>
         \A i \in 1..Len(strings) :
            /\ IsPrefix(ExtractedContext(strings[i]), ExtractedContext(strings'[i]))
            /\ \A k \in 1..Len(ExtractedContext(strings'[i])) :
                  ~IsBlank(ExtractedContext(strings'[i])[k])]_vars

----------------------------------------------------------------------------
(* Claims about the content of the files chunks *)

\* the text opens with a header that names the path of the file: the label
\* of a whole file, or the header of a part
HasFileHeader(entry) ==
    \/ IsPrefix(<<"C">> \o Repeat("p", entry.pathLen), entry.text)
    \/ IsPrefix(<<"P">> \o Repeat("p", entry.pathLen), entry.text)

\* C23: file headers -- every piece of file content placed into a files
\* chunk, including each fragment produced by splitting an oversized file,
\* carries a header naming the path of the file it came from.
C23_FileHeaders ==
    \A c \in 1..Len(filesChunks) : \A m \in 1..Len(filesChunks[c]) :
        HasFileHeader(filesChunks[c][m])

\* the parts of a text after this many rounds of bisection
RECURSIVE Bisected(_, _)
Bisected(parts, rounds) ==
    IF rounds = 0 THEN parts ELSE Bisected(HalveAll(parts), rounds - 1)

\* the fragments of the file fit the files budget after at most this many
\* rounds, measured as the split loop measures: the part header and a part
FitsAfter(file, rounds, limit) ==
    LET text == RemoveContentLabel(FileText(file), ContentLabel(file.pathLen, <<file.id>>))
        header == PartHeader(file.pathLen, <<file.id>>)
    IN  \E r \in 0..rounds : Tokens(header \o Bisected(<<text>>, r)[1]) <= limit

\* the number of rounds after which the fragments of the file first fit
RoundsToFit(file, limit) ==
    Min({r \in 0..maxNumbersOfSplit : FitsAfter(file, r, limit)})

\* the keys the fragments of the file get when it is bisected until it fits
FragmentKeys(file, limit) ==
    LET text == RemoveContentLabel(FileText(file), ContentLabel(file.pathLen, <<file.id>>))
        parts == Bisected(<<text>>, RoundsToFit(file, limit))
    IN  {<<file.id, i - 1>> : i \in 1..Len(parts)}

\* C26: split ceiling -- an oversized file is bisected round by round until
\* its fragments fit the files budget; a file whose fragments fit after at
\* most 10 rounds is kept and all its fragments are queued for chunking, and
\* only a file whose fragments still exceed the budget at the 10-split
\* ceiling is dropped and reported as too large.
C26_SplitCeiling ==
    \A f \in 1..Len(localFiles) :
        LET file == localFiles[f]
        IN  (cpc = "planned" /\ file.readable /\ Tokens(FileText(file)) > filesChunkLimit) =>
                IF FitsAfter(file, maxNumbersOfSplit, filesChunkLimit)
                THEN /\ <<file.id>> \notin tooLarge
                     /\ {k \in queued : k[1] = file.id} = FragmentKeys(file, filesChunkLimit)
                ELSE /\ <<file.id>> \in tooLarge
                     /\ {k \in queued : k[1] = file.id} = {}

----------------------------------------------------------------------------
(* Claims about the reset command *)

\* the context Crowdin holds for the string with this id
ContextInProject(id) ==
    LET place == CHOOSE c \in 1..Len(containers) :
                    \E i \in 1..Len(containers[c]) : containers[c][i].id = id
        at == CHOOSE i \in 1..Len(containers[place]) : containers[place][i].id = id
    IN  containers[place][at].context

\* C27: reset patches only AI-annotated strings -- the reset command sends a
\* context patch only for strings whose current context contains the AI
\* section end marker; a string without an AI section, including one whose
\* context is empty, null or undefined, is never included in a patch.
C27_ResetPatchesOnlyAnnotated ==
    \A p \in 1..Len(patches) : \A o \in 1..Len(patches[p]) :
        LET ctx == ContextInProject(patches[p][o].path)
        IN  /\ ctx # Undefined
            /\ ctx # <<>>
            /\ Includes(ctx, AI_CONTEXT_SECTION_END)

====
